---- MODULE Spec2Model ----
(***************************************************************************)
(* Model of citk/model.py: the feed-forward network FFN, its construction  *)
(* over a flat parameter vector, its loss, and the training loop FFN.fit.  *)
(*                                                                         *)
(* Numbers are fixed-point integers: one unit is 0.1, so that the          *)
(* constructor's `0.1 * W_vect` is exact on the raw initial values, which   *)
(* are multiples of 10.  Floating-point infinity is the sentinel Inf; NaN  *)
(* is not modelled: every loss is a finite number, +inf or -inf.           *)
(*                                                                         *)
(* Vectors (numpy arrays) are objects of a heap, referred to by integer    *)
(* references, so that aliasing and in-place mutation are visible.         *)
(***************************************************************************)
EXTENDS Integers, Sequences, FiniteSets, TLC

\* ---------------------------------------------------------------- bounds
MaxEpochs  == 2    \* largest `epochs` argument of fit
MaxBatches == 3    \* largest number of batches gen_batch yields per epoch
MaxVal     == 2    \* the optimiser's vectors have entries in -1 .. MaxVal
MaxLayers  == 2    \* longest layer_specs list given to the constructor
MaxUnits   == 2    \* largest `units` of a layer
FloatMax   == 1    \* largest finite loss; above it arithmetic overflows to Inf

\* ------------------------------------------------------- values of Python
None  == 0                \* the None reference (references are 1, 2, ...)
Unset == 0 - 1            \* layer.number before any FFN numbered the layer
Inf   == 1000             \* np.inf
NegInf == 0 - Inf         \* -np.inf

NoArg == << >>            \* an optional argument left at its default None
Some(n) == << n >>        \* an optional argument that was passed

Abs(x) == IF x < 0 THEN 0 - x ELSE x

\* IEEE arithmetic on the extended numbers (NaN-producing cases do not occur:
\* no operand is ever -inf).
Overflow(x) == IF x > FloatMax THEN Inf ELSE x
FAdd(a, b) == IF a = Inf \/ b = Inf THEN Inf ELSE Overflow(a + b)
FMul(a, b) == IF a = 0 \/ b = 0 THEN 0
              ELSE IF a = Inf \/ b = Inf THEN Inf ELSE Overflow(a * b)

RECURSIVE SumSeq(_)
SumSeq(s) == IF s = << >> THEN 0 ELSE Head(s) + SumSeq(Tail(s))

RECURSIVE FSum(_)
FSum(s) == IF s = << >> THEN 0 ELSE FAdd(Head(s), FSum(Tail(s)))

Const(n, v) == [k \in 1..n |-> v]

\* --------------------------------------------------------------- layers
\* A layer object: its variant, its width and the raw value its initializer
\* produces are fixed; `number` is the attribute FFN.__init__ assigns.
Variants == {"Dense", "Fuzzify"}

\* str(layer): the layer's identifier, from its variant name and its number.
LayerName(layer) == << layer.variant, layer.number >>

\* layer.build_weights_dict(input_shape) -> (N_weights, output_shape), or the
\* IncompatibleShapeError of a layer that needs a rank-1 input.
build_weights_dict(layer, shape) ==
    IF Len(shape) # 1
    THEN [ok |-> FALSE, N |-> 0, shape |-> shape]
    ELSE IF layer.variant = "Dense"
         THEN [ok |-> TRUE, N |-> (shape[1] + 1) * layer.units,
               shape |-> << layer.units >>]
         ELSE [ok |-> TRUE, N |-> 2 * shape[1] * layer.units,
               shape |-> << shape[1] * layer.units >>]

\* layer.initializer(size=(N,)): N raw values.
initializer(layer, N) == Const(N, layer.raw)

\* layer.forward(inputs, weights): a pure function of the inputs and the slice.
forward(layer, cur_units, cur_weights) == cur_units + SumSeq(cur_weights)

\* ------------------------------------------------------- WeightsParser
\* Registrations in the order made; N is the write cursor.
NewParser == [N |-> 0, regs |-> << >>, err |-> FALSE]

Registered(parser, name) == \E k \in 1..Len(parser.regs) : parser.regs[k].name = name

\* parser.add_weights(name, (count,)): append a descriptor at the current end
\* offset; a duplicate identifier is an error.
add_weights(parser, name, count) ==
    IF Registered(parser, name)
    THEN [parser EXCEPT !.err = TRUE]
    ELSE [parser EXCEPT !.N = parser.N + count,
                        !.regs = Append(parser.regs,
                                  [name |-> name, start |-> parser.N, count |-> count])]

\* parser.get(vect, name): the sub-range of vect at the stored offset.
ParserEntry(parser, name) ==
    parser.regs[CHOOSE k \in 1..Len(parser.regs) : parser.regs[k].name = name]

\* The position of the registration of an identifier the parser has.
ParserSlot(parser, name) ==
    CHOOSE k \in 1..Len(parser.regs) : parser.regs[k].name = name

ParserGet(parser, vect, name) ==
    LET e == ParserEntry(parser, name)
    IN  SubSeq(vect, e.start + 1, e.start + e.count)

\* ------------------------------------------------------------ FFN.__init__
\* Faulty variant of the loop body: the initial values of a layer replace the
\* vector built so far instead of being appended to it.
CtorBodyOverwrites(st, num, l) ==
    LET layers1 == [st.layers EXCEPT ![l].number = num]
        layer   == layers1[l]
        bw      == build_weights_dict(layer, st.cur_shape)
        parser1 == add_weights(st.parser, LayerName(layer), bw.N)
    IN  IF ~bw.ok
        THEN [st EXCEPT !.layers = layers1, !.err = "IncompatibleShapeError"]
        ELSE [layers    |-> layers1,
              parser    |-> parser1,
              cur_shape |-> bw.shape,
              W         |-> initializer(layer, bw.N),
              err       |-> st.err]

\* Faulty variant of the loop body: one weight more is registered than is
\* initialised.
CtorBodyOffByOne(st, num, l) ==
    LET layers1 == [st.layers EXCEPT ![l].number = num]
        layer   == layers1[l]
        bw      == build_weights_dict(layer, st.cur_shape)
        parser1 == add_weights(st.parser, LayerName(layer), bw.N + 1)
    IN  IF ~bw.ok
        THEN [st EXCEPT !.layers = layers1, !.err = "IncompatibleShapeError"]
        ELSE [layers    |-> layers1,
              parser    |-> parser1,
              cur_shape |-> bw.shape,
              W         |-> st.W \o initializer(layer, bw.N),
              err       |-> st.err]

\* One iteration of the constructor's loop over enumerate(layer_specs):
\* number the layer, build its weights, register them, append initial values.
CtorBody(st, num, l) ==
    LET layers1 == [st.layers EXCEPT ![l].number = num]
        layer   == layers1[l]
        bw      == build_weights_dict(layer, st.cur_shape)
        parser1 == add_weights(st.parser, LayerName(layer), bw.N)
    IN  IF ~bw.ok
        THEN [st EXCEPT !.layers = layers1, !.err = "IncompatibleShapeError"]
        ELSE IF parser1.err
        THEN [st EXCEPT !.layers = layers1, !.err = "DuplicateIdentifierError"]
        ELSE [layers    |-> layers1,
              parser    |-> parser1,
              cur_shape |-> bw.shape,
              W         |-> st.W \o initializer(layer, bw.N),
              err       |-> st.err]

RECURSIVE CtorLoop(_, _, _)
CtorLoop(st, layer_specs_, pos) ==
    IF pos > Len(layer_specs_) \/ st.err # ""
    THEN st
    ELSE CtorLoop(CtorBody(st, pos - 1, layer_specs_[pos]), layer_specs_, pos + 1)

\* self.W_vect = 0.1 * W_vect
Scale(W) == [k \in DOMAIN W |-> W[k] \div 10]

\* FFN.__init__(input_shape, layer_specs, loss, **kwargs) on the layer
\* objects `layers_`: the fields of the new network and the layers as numbered.
FFNInit(layers_, input_shape, layer_specs_) ==
    LET st == CtorLoop([layers |-> layers_, parser |-> NewParser,
                        cur_shape |-> input_shape, W |-> << >>, err |-> ""],
                       layer_specs_, 1)
    IN  [st EXCEPT !.W = Scale(st.W)]

\* ------------------------------------------------- loss, _predict, eval
\* The loss callable given to the constructor: absolute error.
base_loss(pred, y) == Overflow(Abs(pred - y))

\* FFN._predict(W_vect, inputs): every layer of layer_specs in order, each
\* reading parser.get(W_vect, str(layer)).  A run is [value, err, read]: the
\* units so far, the error that ended the run ("" for none) and, per position
\* passed, the registration parser.get used.
RECURSIVE PredictFrom(_, _, _, _, _, _)
PredictFrom(layers_, layer_specs_, parser_, W, run, pos) ==
    IF pos > Len(layer_specs_) \/ run.err # ""
    THEN run
    ELSE LET layer == layers_[layer_specs_[pos]]
             name  == LayerName(layer)
         IN  IF ~Registered(parser_, name)
             THEN [run EXCEPT !.err = "UnknownIdentifierError"]
             ELSE LET cur_weights == ParserGet(parser_, W, name)
                  IN  PredictFrom(layers_, layer_specs_, parser_, W,
                          [value |-> forward(layer, run.value, cur_weights),
                           err   |-> "",
                           read  |-> Append(run.read, ParserSlot(parser_, name))],
                          pos + 1)

\* A network as the methods see it: self without the live vector.
\* net = [layers, layer_specs, parser, regularization, reg_coef]
PredictRun(net, W, inputs) ==
    PredictFrom(net.layers, net.layer_specs, net.parser, W,
                [value |-> inputs, err |-> "", read |-> << >>], 1)

Predict_(net, W, inputs) == PredictRun(net, W, inputs).value

\* np.power(np.linalg.norm(W, 2), 2) and np.linalg.norm(W, 1)
L2Sq(W) == FSum([k \in DOMAIN W |-> Overflow(W[k] * W[k])])
L1(W)   == FSum([k \in DOMAIN W |-> Overflow(Abs(W[k]))])

\* Faulty variant: a regularization kind that is not "l1" is taken for "l2".
LossDefaultsToL2(net, W, X, y, omit_reg) ==
    LET reg == IF net.regularization = "l1" /\ ~omit_reg THEN L1(W)
               ELSE IF ~omit_reg THEN L2Sq(W)
               ELSE 0
    IN  FAdd(base_loss(Predict_(net, W, X), y), FMul(net.reg_coef, reg))

\* FFN.loss(W_vect, X, y, omit_reg)
Loss(net, W, X, y, omit_reg) ==
    LET reg == IF net.regularization = "l2" /\ ~omit_reg THEN L2Sq(W)
               ELSE IF net.regularization = "l1" /\ ~omit_reg THEN L1(W)
               ELSE 0
    IN  FAdd(base_loss(Predict_(net, W, X), y), FMul(net.reg_coef, reg))

\* Faulty variant: the evaluation keeps the penalty.
EvalWithPenalty(net, W, input, output) == Loss(net, W, input, output, FALSE)

\* FFN.eval(input, output) on the live vector W
Eval(net, W, input, output) == Loss(net, W, input, output, TRUE)

\* ------------------------------------------------------------------ state
VARIABLES
    \* the layer objects and the network (self)
    layers, layer_specs, parser, regularization, reg_coef, W_vect,
    heap,           \* the vector objects: reference -> contents
    pc,             \* where the program is
    \* the arguments of the fit call in progress (or of the last one)
    epochs_arg, load_best_model_on_end, minimize_metric,
    nb,             \* batches gen_batch yields per epoch for train_sample, batch_size
    \* the locals of the fit call in progress
    epochs, i, b, to_stop, inst, tr_accum_loss,
    best_inst, best_score, best_epoch,
    history,        \* the history of the fit call in progress, then the one returned
    \* observations of the run (no code reads them)
    fitted,         \* a fit call on this network has ended
    last_ret,       \* contents of the vector the last optimiser.apply returned
    stop_seen,      \* some batch of the current epoch returned stop_flag true
    epoch_vect,     \* contents of the live vector at the end of each epoch
    last_stop,      \* the stop_flag the latest apply of the current epoch returned
    out             \* the latest call of predict, loss or eval and its outcome

netVars   == << layers, layer_specs, parser, regularization, reg_coef >>
argVars   == << epochs_arg, load_best_model_on_end, minimize_metric, nb >>
refVars   == << W_vect, inst, best_inst, heap >>
localVars == << epochs, i, b, to_stop, tr_accum_loss, best_score, best_epoch >>
obsVars   == << fitted, last_ret, stop_seen, epoch_vect >>
vars == << netVars, refVars, pc, argVars, localVars, history, obsVars,
           last_stop, out >>

Net == [layers |-> layers, layer_specs |-> layer_specs, parser |-> parser,
        regularization |-> regularization, reg_coef |-> reg_coef]

\* No method was called since the network was built, trained or changed.
NoCall == [method |-> "", W |-> NoArg, x |-> 0, y |-> 0, omit_reg |-> FALSE,
           value |-> 0, err |-> "", read |-> << >>]

\* Contents of the vector a reference names (None names nothing).
Deref(h, r) == IF r = None THEN << >> ELSE h[r]

\* A new object: a reference not in use.
Fresh(h) == Cardinality(DOMAIN h) + 1

\* Reference counting frees the objects no variable refers to, and references
\* are canonical names: the live objects are numbered in the order in which
\* self.W_vect, inst and best_inst reach them.  Two variables hold the same
\* reference exactly when they name the same object.
Rank(roots, r) ==
    LET first == CHOOSE k \in 1..Len(roots) :
                     roots[k] = r /\ \A j \in 1..(k - 1) : roots[j] # r
    IN  Cardinality({k \in 1..first :
                       roots[k] # None /\ \A j \in 1..(k - 1) : roots[j] # roots[k]})

Rename(roots, r) == IF r = None THEN None ELSE Rank(roots, r)

Place(h, live, returned, best) ==
    LET roots == << live, returned, best >>
        used  == {roots[k] : k \in 1..3} \ {None}
    IN  [heap      |-> [n \in 1..Cardinality(used) |->
                           h[CHOOSE r \in used : Rank(roots, r) = n]],
         W_vect    |-> Rename(roots, live),
         inst      |-> Rename(roots, returned),
         best_inst |-> Rename(roots, best)]

\* ------------------------------------------------------- collaborators
\* The training and the validation sample (inputs and targets).  The training
\* targets are far from every prediction: the batch losses overflow.
train_sample      == [X |-> 0, y |-> 9]
validation_sample == [X |-> 0, y |-> 0]

\* Entries the optimiser may write.
Vals == (0 - 1) .. MaxVal

\* The vector an optimiser step produces from W: the first coordinate moved to v.
StepTo(W, v) == IF W = << >> THEN W ELSE [W EXCEPT ![1] = v]

\* ---------------------------------------------------------------- FFN.fit
\* epochs = epochs if epochs else 1
EpochsOrDefault(arg) == IF arg = NoArg \/ arg = Some(0) THEN 1 ELSE arg[1]

\* best_score = np.inf if minimize_metric else -np.inf
InitBestScore(minimize) == IF minimize THEN Inf ELSE NegInf

\* Faulty variant: the history of the previous call is kept.
StaleHistory == history

\* history = dict(epoch=[], train_loss=[], validation_loss=[])
NewHistory == [epoch |-> << >>, train_loss |-> << >>, validation_loss |-> << >>]

\* Faulty variant: a stop flag of an earlier batch of the epoch is kept.
StopAny(previous, stop_flag) == previous \/ stop_flag

\* to_stop, inst, tr_loss = optimiser.apply(...): the flag kept from a batch
StopFlag(previous, stop_flag) == stop_flag

\* Faulty variant: the returned vector is not adopted.
AdoptNothing(live, returned) == live

\* self.W_vect = inst
Adopt(live, returned) == returned

\* np.mean(tr_accum_loss): the sum and the count it is divided by
Mean(losses) == << FSum(losses), Len(losses) >>

\* history["epoch"].append(i); history["train_loss"].append(...);
\* history["validation_loss"].append(val_loss)
RecordEpoch(h, epoch, train_loss, val_loss) ==
    [epoch           |-> Append(h.epoch, epoch),
     train_loss      |-> Append(h.train_loss, train_loss),
     validation_loss |-> Append(h.validation_loss, val_loss)]

\* Faulty variant: a tie replaces the snapshot too.
ImprovesOrTies(minimize, val_loss, best) ==
    \/ minimize /\ val_loss <= best
    \/ ~minimize /\ val_loss >= best

\* Faulty variant: the direction flag is ignored.
ImprovesDownward(minimize, val_loss, best) == val_loss < best

\* the conditions of the if / elif that replace the best snapshot
Improves(minimize, val_loss, best) ==
    \/ minimize /\ val_loss < best
    \/ ~minimize /\ val_loss > best

\* Faulty variant: the snapshot is the live object itself.
NoCopy(h, r) == [ref |-> r, heap |-> h]

\* deepcopy(self.W_vect): a new object with the same contents
Deepcopy(h, r) ==
    LET c == Fresh(h) IN [ref |-> c, heap |-> (c :> h[r]) @@ h]

\* if to_stop: break
Break(stop) == stop

\* Faulty variant: the best snapshot is loaded whatever the flag.
LoadAlways(load, live, best) == best

\* if load_best_model_on_end: self.W_vect = best_inst
LoadBest(load, live, best) == IF load THEN best ELSE live

\* The arguments a caller may pass for `epochs`: None, or an int.
EpochArgs == {NoArg} \cup {Some(n) : n \in (0 - 1) .. MaxEpochs}

\* The references after a step, objects placed canonically.
SetRefs(h, live, returned, best) ==
    LET p == Place(h, live, returned, best)
    IN  /\ heap' = p.heap
        /\ W_vect' = p.W_vect
        /\ inst' = p.inst
        /\ best_inst' = p.best_inst

\* Where a method of the network may be called: after construction, after
\* fit returned or raised, after the caller changed the parameters.
Callable == {"idle", "returned", "raised"}

\* Where a fit call is in progress.
InFit == {"epoch", "batch", "book", "exit"}

\* Faulty variant: fit resets the regularization coefficient of the network.
FitResetsCoef(ep, batches, load, minimize) ==
    /\ pc \in Callable
    /\ epochs_arg' = ep
    /\ load_best_model_on_end' = load
    /\ minimize_metric' = minimize
    /\ nb' = batches
    /\ epochs' = EpochsOrDefault(ep)
    /\ SetRefs(heap, W_vect, None, None)
    /\ best_score' = InitBestScore(minimize)
    /\ best_epoch' = 0
    /\ history' = NewHistory
    /\ i' = 0
    /\ b' = 0
    /\ to_stop' = FALSE
    /\ tr_accum_loss' = << >>
    /\ last_ret' = NoArg
    /\ stop_seen' = FALSE
    /\ epoch_vect' = << >>
    /\ last_stop' = FALSE
    /\ out' = NoCall
    /\ pc' = "epoch"
    /\ reg_coef' = 0
    /\ UNCHANGED << layers, layer_specs, parser, regularization, fitted >>

\* fit(...) up to the loop: the locals are initialised.
Fit(ep, batches, load, minimize) ==
    /\ pc \in Callable
    /\ epochs_arg' = ep
    /\ load_best_model_on_end' = load
    /\ minimize_metric' = minimize
    /\ nb' = batches
    /\ epochs' = EpochsOrDefault(ep)
    /\ SetRefs(heap, W_vect, None, None)
    /\ best_score' = InitBestScore(minimize)
    /\ best_epoch' = 0
    /\ history' = NewHistory
    /\ i' = 0
    /\ b' = 0
    /\ to_stop' = FALSE
    /\ tr_accum_loss' = << >>
    /\ last_ret' = NoArg
    /\ stop_seen' = FALSE
    /\ epoch_vect' = << >>
    /\ last_stop' = FALSE
    /\ out' = NoCall
    /\ pc' = "epoch"
    /\ UNCHANGED << netVars, fitted >>

\* for i in range(epochs): the next epoch begins, or the loop is exhausted.
ForEpoch ==
    /\ pc = "epoch"
    /\ IF i < epochs
       THEN /\ tr_accum_loss' = << >>
            /\ to_stop' = FALSE
            /\ b' = 0
            /\ stop_seen' = FALSE
            /\ last_stop' = FALSE
            /\ pc' = "batch"
       ELSE /\ pc' = "exit"
            /\ UNCHANGED << tr_accum_loss, to_stop, b, stop_seen, last_stop >>
    /\ UNCHANGED << netVars, refVars, argVars, epochs, i, best_score,
                    best_epoch, history, fitted, last_ret, epoch_vect, out >>

\* One batch: optimiser.apply(self.loss, X, y, self.W_vect) returns
\* (stop_flag, new vector, batch loss); the new vector is a new object, or the
\* current one updated in place.  The batch loss is self.loss at the current
\* vector.
Batch(stop_flag, v, in_place) ==
    /\ pc = "batch"
    /\ W_vect # None
    /\ LET W        == heap[W_vect]
           tr_loss  == Loss(Net, W, train_sample.X, train_sample.y, FALSE)
           ret      == IF in_place THEN W_vect ELSE Fresh(heap)
           heap1    == (ret :> StepTo(W, v)) @@ heap
       IN  /\ to_stop' = StopFlag(to_stop, stop_flag)
           /\ SetRefs(heap1, Adopt(W_vect, ret), ret, best_inst)
           /\ tr_accum_loss' = Append(tr_accum_loss, tr_loss)
           /\ last_ret' = Some(StepTo(W, v))
    /\ stop_seen' = (stop_seen \/ stop_flag)
    /\ last_stop' = stop_flag
    /\ b' = b + 1
    /\ pc' = IF b + 1 < nb THEN "batch" ELSE "book"
    /\ UNCHANGED << netVars, argVars, epochs, i, best_score, best_epoch,
                    history, fitted, epoch_vect, out >>

\* optimiser.apply on a network whose live vector is None: self.loss fails and
\* the exception leaves fit.
BatchRaises ==
    /\ pc = "batch"
    /\ W_vect = None
    /\ pc' = "raised"
    /\ fitted' = TRUE
    /\ UNCHANGED << netVars, refVars, argVars, localVars, history,
                    last_ret, stop_seen, epoch_vect, last_stop, out >>

\* The end of an epoch: the mean training loss and the validation loss are
\* recorded, the best snapshot is updated, the stop flag is looked at.
Book ==
    /\ pc = "book"
    /\ LET val_loss == Eval(Net, heap[W_vect], validation_sample.X, validation_sample.y)
           copy     == Deepcopy(heap, W_vect)
       IN  /\ history' = RecordEpoch(history, i, Mean(tr_accum_loss), val_loss)
           /\ IF Improves(minimize_metric, val_loss, best_score)
              THEN /\ best_score' = val_loss
                   /\ SetRefs(copy.heap, W_vect, inst, copy.ref)
                   /\ best_epoch' = i
              ELSE UNCHANGED << best_score, best_epoch, refVars >>
    /\ epoch_vect' = Append(epoch_vect, heap[W_vect])
    /\ i' = i + 1
    /\ pc' = IF Break(to_stop) THEN "exit" ELSE "epoch"
    /\ UNCHANGED << netVars, argVars, epochs, b, to_stop, tr_accum_loss,
                    fitted, last_ret, stop_seen, last_stop, out >>

\* After the loop: the best snapshot is loaded if asked for, and fit returns
\* (self, history); its locals are gone.
FitReturn ==
    /\ pc = "exit"
    /\ SetRefs(heap, LoadBest(load_best_model_on_end, W_vect, best_inst), None, None)
    /\ best_score' = 0
    /\ best_epoch' = 0
    /\ epochs' = 0
    /\ i' = 0
    /\ b' = 0
    /\ to_stop' = FALSE
    /\ tr_accum_loss' = << >>
    /\ last_stop' = FALSE
    /\ fitted' = TRUE
    /\ pc' = "returned"
    /\ UNCHANGED << netVars, argVars, history, last_ret, stop_seen, epoch_vect,
                    out >>

\* The caller changes the live parameters of a network after fit returned:
\* in place, or by assigning a new vector.
MutateLive(v, in_place) ==
    /\ pc \in Callable
    /\ fitted
    /\ W_vect # None
    /\ heap[W_vect] # StepTo(heap[W_vect], v)
    /\ LET ret == IF in_place THEN W_vect ELSE Fresh(heap)
       IN  SetRefs((ret :> StepTo(heap[W_vect], v)) @@ heap, ret, None, None)
    /\ out' = NoCall
    /\ pc' = "idle"
    /\ UNCHANGED << netVars, argVars, localVars, history, obsVars, last_stop >>

\* ------------------------------------------------ predict, loss, eval
\* Where the caller uses the methods of the network: as constructed, or as a
\* fit call left it.
AtRest == pc \in {"returned", "raised"} \/ (pc = "idle" /\ ~fitted)

\* self.W_vect as an argument: the contents of the live vector, or None.
Live == IF W_vect = None THEN NoArg ELSE Some(heap[W_vect])

\* self._predict(W, x) for a vector that may be None: parser.get fails on
\* None when there is a layer to read for.
Run(net, W, x) ==
    IF W # NoArg
    THEN PredictRun(net, W[1], x)
    ELSE [value |-> x,
          err   |-> IF net.layer_specs = << >> THEN "" ELSE "TypeError",
          read  |-> << >>]

\* The record of a call: its arguments, the value returned or the error
\* raised, and the registrations _predict read.
Outcome(method, W, x, y, omit_reg, run, value) ==
    [method |-> method, W |-> W, x |-> x, y |-> y, omit_reg |-> omit_reg,
     value |-> IF run.err = "" THEN value ELSE 0,
     err |-> run.err, read |-> run.read]

\* predict(inputs): self._predict(self.W_vect, inputs)
PredictCall(x) ==
    /\ AtRest
    /\ LET run == Run(Net, Live, x)
       IN  out' = Outcome("predict", Live, x, 0, FALSE, run, run.value)
    /\ UNCHANGED << netVars, refVars, pc, argVars, localVars, history, obsVars,
                    last_stop >>

\* loss(W_vect, X, y, omit_reg) on a vector W of the caller
LossCall(W, x, y, omit_reg) ==
    /\ AtRest
    /\ LET run == Run(Net, W, x)
       IN  out' = Outcome("loss", W, x, y, omit_reg, run,
                          IF run.err = "" THEN Loss(Net, W[1], x, y, omit_reg) ELSE 0)
    /\ UNCHANGED << netVars, refVars, pc, argVars, localVars, history, obsVars,
                    last_stop >>

\* eval(input, output): self.loss(self.W_vect, input, output, omit_reg=True)
EvalCall(x, y) ==
    /\ AtRest
    /\ LET run == Run(Net, Live, x)
       IN  out' = Outcome("eval", Live, x, y, TRUE, run,
                          IF run.err = "" THEN Eval(Net, Live[1], x, y) ELSE 0)
    /\ UNCHANGED << netVars, refVars, pc, argVars, localVars, history, obsVars,
                    last_stop >>

\* ------------------------------------------------------- specification
\* The layer objects and constructor arguments of the networks trained.
FitLayers ==
    (1 :> [variant |-> "Dense", units |-> 1, raw |-> 0, number |-> Unset]) @@
    (2 :> [variant |-> "Fuzzify", units |-> 1, raw |-> 0, number |-> Unset])

FitNets == { [layer_specs |-> << 1 >>, regularization |-> "l2", reg_coef |-> 0],
             [layer_specs |-> << 1, 2 >>, regularization |-> "l1", reg_coef |-> 1] }

\* The state after FFN(input_shape, layer_specs, loss, regularization=...,
\* reg_coef=...) returned.
Init ==
    \E n \in FitNets :
        LET st == FFNInit(FitLayers, << 1 >>, n.layer_specs)
        IN  /\ st.err = ""
            /\ layers = st.layers
            /\ layer_specs = n.layer_specs
            /\ parser = st.parser
            /\ regularization = n.regularization
            /\ reg_coef = n.reg_coef
            /\ W_vect = 1
            /\ heap = << st.W >>
            /\ pc = "idle"
            /\ epochs_arg = NoArg
            /\ load_best_model_on_end = TRUE
            /\ minimize_metric = TRUE
            /\ nb = 1
            /\ epochs = 0 /\ i = 0 /\ b = 0 /\ to_stop = FALSE
            /\ inst = None /\ tr_accum_loss = << >>
            /\ best_inst = None /\ best_score = 0 /\ best_epoch = 0
            /\ history = [epoch |-> << >>, train_loss |-> << >>,
                          validation_loss |-> << >>]
            /\ fitted = FALSE
            /\ last_ret = NoArg
            /\ stop_seen = FALSE
            /\ epoch_vect = << >>
            /\ last_stop = FALSE
            /\ out = NoCall

Next ==
    \/ \E ep \in EpochArgs, batches \in 1..MaxBatches, load \in BOOLEAN,
          minimize \in BOOLEAN : Fit(ep, batches, load, minimize)
    \/ ForEpoch
    \/ \E stop_flag \in BOOLEAN, v \in Vals, in_place \in BOOLEAN :
          Batch(stop_flag, v, in_place)
    \/ BatchRaises
    \/ Book
    \/ FitReturn
    \/ \E v \in Vals, in_place \in BOOLEAN : MutateLive(v, in_place)
    \/ PredictCall(validation_sample.X)
    \/ LossCall(Live, train_sample.X, train_sample.y, FALSE)
    \/ EvalCall(validation_sample.X, validation_sample.y)

Spec == Init /\ [][Next]_vars

\* ------------------------------------------- specification: construction
\* The layer objects a caller may have made, before any network numbered them.
LayerIds == {1, 2}

LayerObjects ==
    [variant : Variants, units : 1..MaxUnits, raw : {0, 10}, number : {Unset}]

InputShapes == { << 1 >>, << 2 >>, << 1, 1 >> }

LayerLists == UNION { [1..n -> LayerIds] : n \in 0..MaxLayers }

\* Before FFN(...) is called.
InitCtor ==
    /\ layers \in [LayerIds -> LayerObjects]
    /\ layer_specs = << >>
    /\ parser = NewParser
    /\ regularization = "l2"
    /\ reg_coef = 0
    /\ W_vect = None
    /\ heap = << >>
    /\ pc = "new"
    /\ epochs_arg = NoArg
    /\ load_best_model_on_end = TRUE
    /\ minimize_metric = TRUE
    /\ nb = 1
    /\ epochs = 0 /\ i = 0 /\ b = 0 /\ to_stop = FALSE
    /\ inst = None /\ tr_accum_loss = << >>
    /\ best_inst = None /\ best_score = 0 /\ best_epoch = 0
    /\ history = [epoch |-> << >>, train_loss |-> << >>, validation_loss |-> << >>]
    /\ fitted = FALSE
    /\ last_ret = NoArg
    /\ stop_seen = FALSE
    /\ epoch_vect = << >>
    /\ last_stop = FALSE
    /\ out = NoCall

\* FFN(input_shape, layer_specs, loss, regularization=reg, reg_coef=coef):
\* the network is built, or a layer rejects its input shape and no network
\* exists (the layers numbered until then stay numbered).
Construct(input_shape, specs, reg, coef) ==
    /\ pc = "new"
    /\ LET st == FFNInit(layers, input_shape, specs)
       IN  /\ layers' = st.layers
           /\ IF st.err = ""
              THEN /\ layer_specs' = specs
                   /\ parser' = st.parser
                   /\ regularization' = reg
                   /\ reg_coef' = coef
                   /\ W_vect' = 1
                   /\ heap' = << st.W >>
                   /\ pc' = "idle"
              ELSE /\ pc' = "failed"
                   /\ UNCHANGED << layer_specs, parser, regularization, reg_coef,
                                   W_vect, heap >>
    /\ UNCHANGED << inst, best_inst, argVars, localVars, history, obsVars,
                    last_stop, out >>

NextCtor ==
    \E input_shape \in InputShapes, specs \in LayerLists,
       reg \in {"l2", "l1", "none"}, coef \in {0, 1} :
        Construct(input_shape, specs, reg, coef)

SpecCtor == InitCtor /\ [][NextCtor]_vars

\* ------------------------------------- specification: calls of the methods
\* The layer objects of the networks called, and the regularization kinds
\* they are configured with ("none" stands for every unrecognized kind).
CallLayers(raw) ==
    (1 :> [variant |-> "Dense", units |-> 1, raw |-> raw, number |-> Unset]) @@
    (2 :> [variant |-> "Fuzzify", units |-> 1, raw |-> 0, number |-> Unset])

Kinds == {"l2", "l1", "none"}

\* The state after FFN((1,), specs, loss, regularization=reg, reg_coef=coef)
\* returned, for every list of the two layer objects.
InitCall ==
    \E specs \in LayerLists, raw \in {0, 10}, reg \in Kinds, coef \in {0, 1} :
        LET st == FFNInit(CallLayers(raw), << 1 >>, specs)
        IN  /\ st.err = ""
            /\ layers = st.layers
            /\ layer_specs = specs
            /\ parser = st.parser
            /\ regularization = reg
            /\ reg_coef = coef
            /\ W_vect = 1
            /\ heap = << st.W >>
            /\ pc = "idle"
            /\ epochs_arg = NoArg
            /\ load_best_model_on_end = TRUE
            /\ minimize_metric = TRUE
            /\ nb = 1
            /\ epochs = 0 /\ i = 0 /\ b = 0 /\ to_stop = FALSE
            /\ inst = None /\ tr_accum_loss = << >>
            /\ best_inst = None /\ best_score = 0 /\ best_epoch = 0
            /\ history = [epoch |-> << >>, train_loss |-> << >>,
                          validation_loss |-> << >>]
            /\ fitted = FALSE
            /\ last_ret = NoArg
            /\ stop_seen = FALSE
            /\ epoch_vect = << >>
            /\ last_stop = FALSE
            /\ out = NoCall

\* Another network is built over the same layer objects: FFN(input_shape,
\* specs, loss) numbers them again (also when its construction fails); this
\* network's own fields are not touched.
ConstructOther(input_shape, specs) ==
    /\ pc = "idle"
    /\ ~fitted
    /\ layers' = FFNInit(layers, input_shape, specs).layers
    /\ out' = NoCall
    /\ UNCHANGED << layer_specs, parser, regularization, reg_coef, refVars, pc,
                    argVars, localVars, history, obsVars, last_stop >>

\* The inputs, the targets and the vectors the caller passes to the methods.
Inputs  == {0, 1}
Targets == {0, 1}
Candidates(W) == {Some(W), Some(StepTo(W, 0 - 1)), Some(StepTo(W, 2))}

NextCall ==
    \/ \E input_shape \in InputShapes, specs \in LayerLists :
           ConstructOther(input_shape, specs)
    \/ \E x \in Inputs : PredictCall(x)
    \/ \E W \in Candidates(Deref(heap, W_vect)), x \in Inputs, y \in Targets,
          omit_reg \in BOOLEAN : LossCall(W, x, y, omit_reg)
    \/ \E x \in Inputs, y \in Targets : EvalCall(x, y)

SpecCall == InitCall /\ [][NextCall]_vars

\* ------------------------------------------------------------ properties
Last(s) == s[Len(s)]

IsPrefix(s, t) == Len(s) <= Len(t) /\ SubSeq(t, 1, Len(s)) = s

StrictlyBetter(minimize, a, c) == IF minimize THEN a < c ELSE a > c

\* The best of a list of losses under the direction, +-infinity for none.
RECURSIVE BestOf(_, _)
BestOf(minimize, losses) ==
    IF losses = << >>
    THEN (IF minimize THEN Inf ELSE NegInf)
    ELSE LET rest == BestOf(minimize, SubSeq(losses, 1, Len(losses) - 1))
             x    == Last(losses)
         IN  IF StrictlyBetter(minimize, x, rest) THEN x ELSE rest

\* The earliest position of the best loss of a non-empty list.
BestIndex(minimize, losses) ==
    CHOOSE k \in 1..Len(losses) :
        /\ losses[k] = BestOf(minimize, losses)
        /\ \A j \in 1..(k - 1) : losses[j] # losses[k]

\* C1: at the end of an epoch the best snapshot (best_inst, best_score,
\* best_epoch) is replaced only when the epoch's validation loss is strictly
\* better than best_score under the direction; on a tie or a worse loss all
\* three keep their values.
ThmC1 ==
    [][pc = "book" =>
        LET val_loss == Last(history'.validation_loss)
        IN  \/ StrictlyBetter(minimize_metric, val_loss, best_score)
            \/ /\ best_score' = best_score
               /\ best_epoch' = best_epoch
               /\ (best_inst' = None) = (best_inst = None)
               /\ Deref(heap', best_inst') = Deref(heap, best_inst)]_vars

\* C1, its case: two epochs with equal finite validation losses and different
\* vectors; the snapshot is that of the first.
WitC1 ==
    /\ pc \in {"epoch", "exit"}
    /\ Len(history.validation_loss) = 2
    /\ history.validation_loss[1] = history.validation_loss[2]
    /\ history.validation_loss[1] < Inf
    /\ epoch_vect[1] # epoch_vect[2]
    /\ best_epoch = 0
    /\ best_score = history.validation_loss[1]
    /\ heap[best_inst] = epoch_vect[1]

\* C2: if any batch of an epoch returned stop_flag true, the epoch loop ends
\* right after that epoch's bookkeeping: no later epoch runs.
CexC2 == (pc = "epoch" /\ stop_seen) => i >= epochs

\* C3: fit(..., epochs=0) never executes an epoch: the optimiser is never
\* invoked and the history stays empty.
CexC3 ==
    epochs_arg = Some(0) =>
        /\ pc \notin {"batch", "book"}
        /\ history.epoch = << >>
        /\ last_ret = NoArg

\* C4: when fit returns with load_best_model_on_end after at least one epoch,
\* best_inst is set and the live vector is the one that was live at the end
\* of the epoch with the best validation loss of the history.
CexC4 ==
    /\ (pc = "exit" /\ load_best_model_on_end /\ Len(history.epoch) >= 1)
          => best_inst # None
    /\ (pc = "returned" /\ load_best_model_on_end /\ Len(history.epoch) >= 1)
          => /\ W_vect # None
             /\ heap[W_vect] =
                  epoch_vect[BestIndex(minimize_metric, history.validation_loss)]

\* C5: during a fit call best_score never regresses (it only decreases when
\* minimizing, only increases when maximizing), and it always equals the best
\* validation loss of the epochs run so far.
ThmC5 ==
    /\ [](pc \in InFit =>
            best_score = BestOf(minimize_metric, history.validation_loss))
    /\ [][(pc \in InFit /\ pc' \in InFit) =>
            IF minimize_metric THEN best_score' <= best_score
                               ELSE best_score' >= best_score]_vars

\* C5, its case: minimizing, a second epoch worse than the first; best_score
\* is still the first loss.
WitC5 ==
    /\ pc \in InFit
    /\ minimize_metric
    /\ Len(history.validation_loss) = 2
    /\ history.validation_loss[2] > history.validation_loss[1]
    /\ best_score = history.validation_loss[1]

\* C6: the best snapshot is an independent copy: as long as no better epoch
\* replaces it, no step changes its contents, whatever happens to the live
\* vector; and a step that changes the live vector changes no recorded value
\* of the history.
ThmC6 ==
    [][/\ (best_inst # None /\ best_inst' # None /\ best_epoch' = best_epoch)
             => Deref(heap', best_inst') = Deref(heap, best_inst)
       /\ (Deref(heap', W_vect') # Deref(heap, W_vect))
             => history' = history]_vars

\* C6, its case: batches of a later epoch have changed the live vector; the
\* snapshot still holds the contents of its epoch.
WitC6 ==
    /\ pc = "book"
    /\ best_inst # None
    /\ i > best_epoch
    /\ heap[best_inst] # heap[W_vect]
    /\ heap[best_inst] = epoch_vect[best_epoch + 1]

\* C7: every optimiser.apply receives the live vector, which is the vector the
\* previous apply returned (the construction-time vector for the very first
\* call on the network), also across epoch boundaries; and the validation
\* loss of an epoch is that of the vector its last batch returned.
ThmC7 ==
    /\ (pc = "batch" /\ last_ret # NoArg)
          => (W_vect # None /\ W_vect = inst /\ heap[W_vect] = last_ret[1])
    /\ (pc = "batch" /\ last_ret = NoArg /\ ~fitted)
          => heap[W_vect] = FFNInit(FitLayers, << 1 >>, layer_specs).W
    /\ pc = "book" => heap[W_vect] = last_ret[1]
    /\ (pc \in {"epoch", "exit"} /\ history.validation_loss # << >>)
          => Last(history.validation_loss) =
                Eval(Net, last_ret[1], validation_sample.X, validation_sample.y)

\* C7, its case: the first batch of the second epoch is about to receive the
\* vector the last batch of the first epoch returned.
WitC7 ==
    /\ pc = "batch"
    /\ i = 1
    /\ b = 0
    /\ nb > 1
    /\ last_ret # NoArg
    /\ heap[W_vect] = last_ret[1]
    /\ heap[W_vect] # FFNInit(FitLayers, << 1 >>, layer_specs).W

\* C8: the history is empty when a fit call starts (also a second call on the
\* same network) and is append-only: after k completed epochs its epoch list
\* is 0 .. k-1 and both loss lists have k entries, none ever changed or removed.
HistoryShape ==
    LET n == Len(history.epoch)
    IN  /\ history.epoch = [k \in 1..n |-> k - 1]
        /\ Len(history.train_loss) = n
        /\ Len(history.validation_loss) = n
        /\ pc \in InFit => n = i

HistoryStep ==
    IF pc \notin InFit /\ pc' \in InFit
    THEN /\ history'.epoch = << >>
         /\ history'.train_loss = << >>
         /\ history'.validation_loss = << >>
    ELSE /\ IsPrefix(history.epoch, history'.epoch)
         /\ IsPrefix(history.train_loss, history'.train_loss)
         /\ IsPrefix(history.validation_loss, history'.validation_loss)

\* C8: the history always has the shape HistoryShape and every step is a
\* HistoryStep: emptied when a fit call starts, extended only otherwise.
ThmC8 == []HistoryShape /\ [][HistoryStep]_vars

\* C8, its case: a second fit call on the network has completed two epochs.
WitC8 ==
    /\ fitted
    /\ pc = "exit"
    /\ history.epoch = << 0, 1 >>
    /\ Len(history.validation_loss) = 2

RECURSIVE SumCounts(_)
SumCounts(regs) == IF regs = << >> THEN 0 ELSE Head(regs).count + SumCounts(Tail(regs))

\* C9: right after construction the length of W_vect is the sum of the
\* parameter counts registered in the parser, one registration per layer, in
\* layer order.
ThmC9 ==
    pc = "idle" =>
        /\ Len(heap[W_vect]) = SumCounts(parser.regs)
        /\ Len(parser.regs) = Len(layer_specs)
        /\ \A k \in 1..Len(layer_specs) :
              parser.regs[k].name = << layers[layer_specs[k]].variant, k - 1 >>

\* C9, its case: a network of two different layers.
WitC9 ==
    /\ pc = "idle"
    /\ Len(layer_specs) = 2
    /\ layer_specs[1] # layer_specs[2]
    /\ parser.regs[1].count # parser.regs[2].count
    /\ Len(heap[W_vect]) = parser.regs[1].count + parser.regs[2].count

\* The positions of the vector a registration covers.
Range(reg) == reg.start .. (reg.start + reg.count - 1)

\* C10: after construction the registered slices have distinct identifiers,
\* are pairwise disjoint and contiguous (each starts where the previous one
\* ended, the first at 0) and cover the parameter vector exactly.
ThmC10 ==
    pc = "idle" =>
        LET regs == parser.regs
            n    == Len(regs)
        IN  /\ \A j \in 1..n, k \in 1..n :
                  j # k => /\ regs[j].name # regs[k].name
                           /\ Range(regs[j]) \cap Range(regs[k]) = {}
            /\ \A k \in 1..n :
                  regs[k].start = IF k = 1 THEN 0
                                  ELSE regs[k - 1].start + regs[k - 1].count
            /\ UNION {Range(regs[k]) : k \in 1..n} = 0 .. (Len(heap[W_vect]) - 1)

\* C10, its case: two slices, the second starting where the first ends, made
\* for the same layer object at two positions.
WitC10 ==
    /\ pc = "idle"
    /\ Len(parser.regs) = 2
    /\ layer_specs[1] = layer_specs[2]
    /\ parser.regs[1].count > 0
    /\ parser.regs[2].start = parser.regs[1].count
    /\ parser.regs[2].start + parser.regs[2].count = Len(heap[W_vect])

\* C11: FFN._predict hands the layer at every position of layer_specs the
\* slice registered for that position at construction: a predict call raises
\* no lookup error and reads registration k at position k, for every list the
\* constructor accepted, also one that repeats a layer object, and also after
\* another network was built over the same layer objects.
CexC11 ==
    out.method = "predict" =>
        /\ out.err = ""
        /\ out.read = [k \in 1..Len(layer_specs) |-> k]

\* C12: eval(x, y) is loss(W, x, y, omit_reg=True) at the live vector W, and
\* its value is the base loss of the prediction with no penalty added,
\* whatever the regularization kind and reg_coef; it fails exactly where the
\* prediction fails.
ThmC12 ==
    out.method = "eval" =>
        /\ out.W = Live
        /\ out.omit_reg
        /\ out.err = Run(Net, Live, out.x).err
        /\ out.err = "" =>
              /\ out.value = Loss(Net, Live[1], out.x, out.y, TRUE)
              /\ out.value = base_loss(Run(Net, Live, out.x).value, out.y)

\* C12, its case: an evaluation with a finite value on a network whose
\* penalty is not zero: its training loss at the same point is another value.
WitC12 ==
    /\ out.method = "eval"
    /\ out.err = ""
    /\ regularization \in {"l2", "l1"}
    /\ reg_coef > 0
    /\ out.value < Inf
    /\ Loss(Net, Live[1], out.x, out.y, FALSE) # out.value

\* The penalty of a regularization kind at a vector: the squared L2 norm for
\* "l2", the L1 norm for "l1", nothing for any other kind.
PenaltyOf(kind, W) ==
    IF kind = "l2" THEN L2Sq(W) ELSE IF kind = "l1" THEN L1(W) ELSE 0

\* C16: loss(W, X, y) is the base loss of the prediction plus reg_coef times
\* the penalty of the configured kind over the whole vector W; for a kind that
\* is neither "l2" nor "l1" that is the base loss alone, and the call fails
\* only where the prediction fails.
ThmC16 ==
    (out.method = "loss" /\ ~out.omit_reg) =>
        /\ out.err = Run(Net, out.W, out.x).err
        /\ out.err = "" =>
              LET base == base_loss(Run(Net, out.W, out.x).value, out.y)
              IN  /\ out.value =
                        FAdd(base, FMul(reg_coef, PenaltyOf(regularization, out.W[1])))
                  /\ regularization \notin {"l2", "l1"} => out.value = base

\* C16, its case: a finite loss on a network of an unrecognized kind with a
\* positive reg_coef, at a vector whose norms are not zero.
WitC16 ==
    /\ out.method = "loss"
    /\ ~out.omit_reg
    /\ out.err = ""
    /\ regularization = "none"
    /\ reg_coef > 0
    /\ L1(out.W[1]) > 0
    /\ out.value < Inf

\* C13: no step of a fit call, and no call of predict, loss or eval, changes
\* the layer sequence, a layer's position index (hence its identifier), the
\* registrations of the parser, the regularization kind or reg_coef: training
\* changes the parameter vector only.
ThmC13 ==
    [][(pc \in InFit \/ pc' \in InFit \/ out' # out) =>
          /\ layer_specs' = layer_specs
          /\ \A l \in DOMAIN layers :
                /\ layers'[l].number = layers[l].number
                /\ LayerName(layers'[l]) = LayerName(layers[l])
          /\ layers' = layers
          /\ parser' = parser
          /\ regularization' = regularization
          /\ reg_coef' = reg_coef]_vars

\* C13, its case: a fit call of two epochs has changed the parameter vector
\* and returned, a method was called after it, and the network is configured
\* as it was constructed.
WitC13 ==
    /\ pc = "returned"
    /\ Len(history.epoch) = 2
    /\ out.method = "eval"
    /\ W_vect # None
    /\ reg_coef > 0
    /\ LET st == FFNInit(FitLayers, << 1 >>, layer_specs)
       IN  /\ heap[W_vect] # st.W
           /\ layers = st.layers
           /\ parser = st.parser

\* The epoch bound a caller asked for: `epochs`, 1 when it is left unspecified.
EpochsAsked == IF epochs_arg = NoArg THEN 1 ELSE epochs_arg[1]

\* C14: when the epoch loop of a fit call has ended, the number of epochs run
\* is at least 1 and at most `epochs` (1 when epochs is unspecified).
CexC14 ==
    pc = "exit" =>
        /\ Len(history.epoch) >= 1
        /\ Len(history.epoch) <= EpochsAsked

\* C15: the stop signal is looked at once per epoch, after the bookkeeping,
\* and only the flag of the epoch's last batch counts: every batch of the
\* epoch is applied whatever an earlier batch returned, the bookkeeping step
\* leaves the loop exactly when the last batch returned stop_flag true, and
\* the loop head leaves it only when the epoch bound is exhausted.
ThmC15 ==
    /\ [](pc = "book" => b = nb)
    /\ [][(pc = "batch" /\ pc' \in InFit) =>
             /\ b' = b + 1
             /\ pc' = IF b' < nb THEN "batch" ELSE "book"]_vars
    /\ [][pc = "book" =>
             /\ history'.epoch = Append(history.epoch, i)
             /\ pc' = IF last_stop THEN "exit" ELSE "epoch"]_vars
    /\ [][pc = "epoch" => (pc' = "exit") = (i >= epochs)]_vars

\* C15, its case: an earlier batch of the epoch returned stop, the last one
\* did not, all batches were applied and the loop goes on to the next epoch.
WitC15 ==
    /\ pc = "epoch"
    /\ stop_seen
    /\ ~last_stop
    /\ nb >= 2
    /\ b = nb
    /\ Len(history.epoch) = 1
    /\ i < epochs

\* C17: when fit returns, the live vector is replaced by the best snapshot
\* only if load_best_model_on_end is true; if it is false the live vector is
\* left as it is, which is the vector the last optimiser.apply of the last
\* epoch returned, whatever the best snapshot holds.
ThmC17 ==
    /\ [][pc = "exit" =>
             IF load_best_model_on_end
             THEN /\ (W_vect' = None) = (best_inst = None)
                  /\ Deref(heap', W_vect') = Deref(heap, best_inst)
             ELSE /\ (W_vect' = None) = (W_vect = None)
                  /\ Deref(heap', W_vect') = Deref(heap, W_vect)]_vars
    /\ []((pc = "returned" /\ ~load_best_model_on_end /\ last_ret # NoArg) =>
             /\ W_vect # None
             /\ heap[W_vect] = last_ret[1])

\* C17, its case: fit returned without loading the best model after two
\* epochs of which the first was the best; the live vector is that of the
\* last batch and differs from the best epoch's.
WitC17 ==
    /\ pc = "returned"
    /\ ~load_best_model_on_end
    /\ minimize_metric
    /\ Len(history.validation_loss) = 2
    /\ history.validation_loss[1] < history.validation_loss[2]
    /\ heap[W_vect] = last_ret[1]
    /\ heap[W_vect] = epoch_vect[2]
    /\ heap[W_vect] # epoch_vect[1]

\* C18: during a fit call, once a snapshot exists best_epoch is the index of
\* an epoch recorded in the history, the validation loss recorded for it is
\* best_score, and no earlier epoch recorded that loss; as long as no
\* improvement was recorded best_epoch is 0, best_inst is None and best_score
\* is the initial infinity.
ThmC18 ==
    pc \in InFit =>
        IF best_inst # None
        THEN /\ best_epoch \in 0 .. (Len(history.epoch) - 1)
             /\ history.epoch[best_epoch + 1] = best_epoch
             /\ history.validation_loss[best_epoch + 1] = best_score
             /\ \A j \in 1..best_epoch : history.validation_loss[j] # best_score
        ELSE /\ best_epoch = 0
             /\ best_score = InitBestScore(minimize_metric)

\* C18, its case: maximizing, the second epoch improved on the first and the
\* snapshot is that of the second epoch.
WitC18 ==
    /\ pc \in InFit
    /\ ~minimize_metric
    /\ best_inst # None
    /\ Len(history.epoch) = 2
    /\ history.validation_loss[2] > history.validation_loss[1]
    /\ best_epoch = 1
    /\ heap[best_inst] = epoch_vect[2]

====
